---------------------------- MODULE Spec2Model ----------------------------
(***************************************************************************)
(* Model of the bulk WhatsApp send pipeline: phone number normalisation    *)
(* and classification (lib/numberValidation), the sliding-window rate      *)
(* limiter (lib/rateLimiter), the Twilio dispatcher (lib/twilio) and the   *)
(* POST /api/sms/send route with its history bookkeeping.                  *)
(*                                                                         *)
(* Strings are sequences of one-character strings, so that the regular     *)
(* expressions and prefix tests of the source can be computed.             *)
(***************************************************************************)
EXTENDS Integers, Sequences, FiniteSets, TLC

VARIABLES
  \* ---- normaliser harness
  raw,            \* the input string given to normalizePhoneNumber
  normalized,     \* normalizePhoneNumber(raw)
  renormalized,   \* normalizePhoneNumber(normalized)
  npc,            \* "idle" | "start" | "once" | "twice"
  \* ---- validatePhoneNumbers (classifier)
  phoneNumbers,   \* the raw batch
  db,             \* rows of phone_numbers: [phone_number, normalized_number]
  uniqueResults,  \* Map<string, ValidationResult>, filled one unique value at a time
  lookups,        \* the normalized numbers queried so far, in call order
  lookupFailed,   \* raw values whose lookup query threw
  bulk,           \* the BulkValidationResult returned, or NoResult
  cpc,            \* "idle" | "validating" | "returned" | "threw"
  \* ---- rate limiters (process-wide) and the clock
  now,            \* Date.now(), in ms
  requests,       \* per limiter: Map<identifier, RequestRecord[]>
  allowedLog,     \* per limiter: the checkLimit calls answered allowed: [task, index, at]
  \* ---- TwilioService.sendBulkWhatsApp, one call per task
  batch,          \* per task: the phoneNumbers argument
  options,        \* per task: "message" | "template" | "none"
  idx,            \* per task: position of the loop in the batch
  pc,             \* per task: position in sendWhatsApp / sendBulkWhatsApp
  wakeAt,         \* per task: resetTime the task sleeps until
  results,        \* per task: the results array
  totalSent,      \* per task
  totalFailed,    \* per task
  summary,        \* per task: the BulkWhatsAppResult returned, or NoResult
  thrown,         \* per task: per result, the error the transport threw (or NoError)
  sendLog,        \* every client.messages.create call: [task, index, at]
  checks,         \* per task and limiter: checkLimit calls made for the current number
  \* ---- the environment of a run
  transportErrors,    \* the failures the provider can answer with
  transportLatencies, \* how long a client.messages.create call can take, in ms
  timerLateness,      \* how late a setTimeout can fire, in ms
  \* ---- POST /api/sms/send and the bookkeeping it starts
  req,            \* the request body: [phoneNumbers, payload]
  rpc,            \* position of the handler
  response,       \* the response returned, or NoResult
  pending,        \* bookkeeping promises started and not settled
  settled,        \* bookkeeping promises settled, with their outcome
  errorLog,       \* bookkeeping promises whose failure was logged
  sendCount,      \* send_count of the phone_numbers rows, by phone_number
  templateSends,  \* rows of template_sends
  \* ---- concurrent storePhoneNumbers transactions on the phone_numbers table
  table,          \* rows [id, phone_number, normalized_number, owner]; owner "" = committed
  nextId,         \* the SERIAL sequence of phone_numbers.id
  stx,            \* per store call: [numbers, pos, state, issued, released,
                  \*   error, thrown, inserted]
  \* ---- direct calls of the RateLimiter methods and of the cleanup interval
  calls,          \* number of calls made
  lastCall,       \* the method called last
  discarded,      \* number of samples cleanup() has removed
  \* ---- the dashboard's send flow with the duplicate confirmation modal
  dpc,            \* position of the flow
  modal,          \* what the modal shows, or NoResult
  submitted       \* the phoneNumbers posted to /api/sms/send, or NoResult

normVars  == <<raw, normalized, renormalized, npc>>
classVars == <<phoneNumbers, db, uniqueResults, lookups, lookupFailed, bulk, cpc>>
gateVars  == <<now, requests, allowedLog>>
taskVars  == <<batch, options, idx, pc, wakeAt, results, totalSent, totalFailed,
               summary, thrown, sendLog, checks>>
envVars   == <<transportErrors, transportLatencies, timerLateness>>
dispVars  == <<gateVars, taskVars, envVars>>
routeVars == <<req, rpc, response, pending, settled, errorLog, sendCount,
               templateSends>>
storeVars == <<table, nextId, stx>>
limVars   == <<calls, lastCall, discarded>>
dashVars  == <<dpc, modal, submitted>>
vars      == <<normVars, classVars, dispVars, routeVars, storeVars, limVars, dashVars>>

-----------------------------------------------------------------------------
(* Strings *)

Digits == {"0", "1", "2", "3", "4", "5", "6", "7", "8", "9"}

StartsWith(s, p) == Len(s) >= Len(p) /\ SubSeq(s, 1, Len(p)) = p

\* s.includes(sub)
Includes(s, sub) ==
  \E i \in 0..(Len(s) - Len(sub)) : SubSeq(s, i + 1, i + Len(sub)) = sub

IsDigitOrPlus(c) == c \in Digits \cup {"+"}

\* phoneNumber.replace(/[^\d+]/g, "")
StripNonPhone(s) == SelectSeq(s, IsDigitOrPlus)

RECURSIVE Repeat(_, _)
Repeat(c, n) == IF n = 0 THEN <<>> ELSE <<c>> \o Repeat(c, n - 1)

SeqsUpTo(S, n) == UNION {[1..k -> S] : k \in 0..n}

-----------------------------------------------------------------------------
(* lib/numberValidation: normalizePhoneNumber, isValidPhoneNumber *)

\* mutant: the leading "00" is dropped without putting the "+" in its place
normalizePhoneNumberNoPlus(phoneNumber) ==
  LET stripped == StripNonPhone(phoneNumber) IN
  IF StartsWith(stripped, <<"+">>) THEN stripped
  ELSE IF StartsWith(stripped, <<"0", "0">>)
       THEN SubSeq(stripped, 3, Len(stripped))
  ELSE IF Len(stripped) >= 10 THEN <<"+">> \o stripped
  ELSE stripped

normalizePhoneNumber(phoneNumber) ==
  LET stripped == StripNonPhone(phoneNumber) IN
  IF StartsWith(stripped, <<"+">>) THEN stripped
  ELSE IF StartsWith(stripped, <<"0", "0">>)
       THEN <<"+">> \o SubSeq(stripped, 3, Len(stripped))
  ELSE IF Len(stripped) >= 10 THEN <<"+">> \o stripped
  ELSE stripped

\* /^\+\d{7,15}$/
MatchesPhoneRegex(s) ==
  /\ Len(s) >= 1
  /\ s[1] = "+"
  /\ Len(s) - 1 >= 7
  /\ Len(s) - 1 <= 15
  /\ \A i \in 2..Len(s) : s[i] \in Digits

isValidPhoneNumber(phoneNumber) ==
  MatchesPhoneRegex(normalizePhoneNumber(phoneNumber))

-----------------------------------------------------------------------------
(* Normaliser harness: inputs are a short free prefix over a small         *)
(* alphabet followed by a run of one digit, which reaches the "00" branch, *)
(* the length-10 branch, embedded "+" and the unprefixed short case.       *)

MaxPrefix == 3
MaxRun    == 13

NormAlphabet == {"0", "1", "+", "-"}

RawStrings ==
  {p \o Repeat("5", k) \o t :
     p \in SeqsUpTo(NormAlphabet, MaxPrefix), k \in 0..MaxRun, t \in {<<>>, <<"+">>}}

NoString == <<"?">>
NoResult == [none |-> TRUE]

NormIdle ==
  /\ raw = NoString /\ normalized = NoString /\ renormalized = NoString
  /\ npc = "idle"

ClassIdle ==
  /\ phoneNumbers = <<>> /\ db = {} /\ uniqueResults = <<>>
  /\ lookups = <<>> /\ lookupFailed = {} /\ bulk = NoResult /\ cpc = "idle"

Tasks    == {"t1", "t2"}
Limiters == {"perSecond", "perMinute"}

DispIdle ==
  /\ now = 0
  /\ requests = [l \in Limiters |-> <<>>]
  /\ allowedLog = [l \in Limiters |-> {}]
  /\ batch = [t \in Tasks |-> <<>>]
  /\ options = [t \in Tasks |-> "none"]
  /\ idx = [t \in Tasks |-> 1]
  /\ pc = [t \in Tasks |-> "idle"]
  /\ wakeAt = [t \in Tasks |-> 0]
  /\ results = [t \in Tasks |-> <<>>]
  /\ totalSent = [t \in Tasks |-> 0]
  /\ totalFailed = [t \in Tasks |-> 0]
  /\ summary = [t \in Tasks |-> NoResult]
  /\ thrown = [t \in Tasks |-> <<>>]
  /\ sendLog = {}
  /\ checks = [t \in Tasks |-> [l \in Limiters |-> 0]]
  /\ transportErrors = {}
  /\ transportLatencies = {}
  /\ timerLateness = {}

RouteIdle ==
  /\ req = NoResult /\ rpc = "idle" /\ response = NoResult
  /\ pending = {} /\ settled = {} /\ errorLog = {}
  /\ sendCount = [n \in {} |-> 0] /\ templateSends = {}

StoreTasks == {"s1", "s2"}

StoreIdle ==
  /\ table = {} /\ nextId = 1
  /\ stx = [s \in StoreTasks |->
              [numbers |-> <<>>, pos |-> 1, state |-> "idle", issued |-> <<>>,
               released |-> 0, error |-> "", thrown |-> "", inserted |-> {}]]

LimIdle == calls = 0 /\ lastCall = "none" /\ discarded = 0

DashIdle == dpc = "idle" /\ modal = NoResult /\ submitted = NoResult

InitNormalize ==
  /\ StoreIdle
  /\ LimIdle
  /\ DashIdle
  /\ raw \in RawStrings
  /\ normalized = NoString /\ renormalized = NoString
  /\ npc = "start"
  /\ ClassIdle
  /\ DispIdle
  /\ RouteIdle

Normalize ==
  /\ npc = "start"
  /\ normalized' = normalizePhoneNumber(raw)
  /\ npc' = "once"
  /\ UNCHANGED <<raw, renormalized, classVars, dispVars, routeVars, storeVars, limVars, dashVars>>

Renormalize ==
  /\ npc = "once"
  /\ renormalized' = normalizePhoneNumber(normalized)
  /\ npc' = "twice"
  /\ UNCHANGED <<raw, normalized, classVars, dispVars, routeVars, storeVars, limVars, dashVars>>

NextNormalize == Normalize \/ Renormalize

SpecNormalize == InitNormalize /\ [][NextNormalize]_vars

-----------------------------------------------------------------------------
(* lib/numberValidation: checkNumberExists, validatePhoneNumber,           *)
(* validatePhoneNumbers                                                    *)

\* [...new Set(xs)]: first-seen order, deduplicated
RECURSIVE Dedup(_)
Dedup(xs) ==
  IF xs = <<>> THEN <<>>
  ELSE LET front == Dedup(SubSeq(xs, 1, Len(xs) - 1))
           last  == xs[Len(xs)]
       IN IF \E i \in 1..Len(front) : front[i] = last
          THEN front ELSE Append(front, last)

Count(xs, x) == Cardinality({i \in 1..Len(xs) : xs[i] = x})

RECURSIVE Concat(_)
Concat(ss) == IF ss = <<>> THEN <<>> ELSE ss[1] \o Concat(Tail(ss))

ErrInvalidFormat == "Invalid phone number format"
ErrDatabase      == "Database error while checking number"

\* SELECT * FROM phone_numbers WHERE normalized_number = $1  (rows.length > 0)
checkNumberExists(phoneNumber, rows) ==
  \E r \in rows : r.normalized_number = normalizePhoneNumber(phoneNumber)

\* validatePhoneNumber: queryOk is whether the lookup query succeeded; the
\* catch block turns a thrown lookup error into an invalid result.
validatePhoneNumber(phoneNumber, rows, queryOk) ==
  IF ~isValidPhoneNumber(phoneNumber)
  THEN [isValid |-> FALSE, isDuplicate |-> FALSE,
        normalizedNumber |-> normalizePhoneNumber(phoneNumber),
        error |-> ErrInvalidFormat]
  ELSE IF ~queryOk
  THEN [isValid |-> FALSE, isDuplicate |-> FALSE,
        normalizedNumber |-> normalizePhoneNumber(phoneNumber),
        error |-> ErrDatabase]
  ELSE [isValid |-> TRUE, isDuplicate |-> checkNumberExists(phoneNumber, rows),
        normalizedNumber |-> normalizePhoneNumber(phoneNumber),
        error |-> ""]

\* mutant: the lookup loop runs over the whole input, repeats included
uniqueInputNumbersAll(input) == input

\* [...new Set(phoneNumbers)]
uniqueInputNumbersOf(input) == Dedup(input)

\* mutant: the push loop starts at 1, so a repeated value is pushed count - 1 times
intraInputDuplicatesButFirst(input) ==
  LET u == Dedup(input) IN
  Concat([i \in 1..Len(u) |->
            IF Count(input, u[i]) > 1
            THEN [j \in 1..(Count(input, u[i]) - 1) |-> u[i]] ELSE <<>>])

\* numberCounts.forEach: every value seen more than once, count times
intraInputDuplicatesOf(input) ==
  LET u == Dedup(input) IN
  Concat([i \in 1..Len(u) |->
            IF Count(input, u[i]) > 1
            THEN [j \in 1..Count(input, u[i]) |-> u[i]] ELSE <<>>])

invalidNumbersOf(input, res) ==
  LET Test(p) == ~res[p].isValid IN SelectSeq(input, Test)

\* mutant: an occurrence after the first of a valid value counts as a duplicate
duplicateNumbersWithRepeats(input, res) ==
  LET Dup(i) == /\ res[input[i]].isValid
                /\ \/ res[input[i]].isDuplicate
                   \/ \E j \in 1..(i - 1) : input[j] = input[i]
  IN Concat([i \in 1..Len(input) |-> IF Dup(i) THEN <<input[i]>> ELSE <<>>])

duplicateNumbersOf(input, res) ==
  LET Test(p) == res[p].isValid /\ res[p].isDuplicate IN SelectSeq(input, Test)

\* mutant: an occurrence is pushed only if the value is not yet in the list
newNumbersOnce(input, res) ==
  LET Test(p) == res[p].isValid /\ ~res[p].isDuplicate
  IN Dedup(SelectSeq(input, Test))

newNumbersOf(input, res) ==
  LET Test(p) == res[p].isValid /\ ~res[p].isDuplicate IN SelectSeq(input, Test)

validNumbersOf(input, res) ==
  LET Test(p) == res[p].isValid IN SelectSeq(input, Test)

\* the second pass of validatePhoneNumbers and its return value
BulkValidationResult(input, res) ==
  [validNumbers         |-> validNumbersOf(input, res),
   duplicateNumbers     |-> duplicateNumbersOf(input, res),
   invalidNumbers       |-> invalidNumbersOf(input, res),
   newNumbers           |-> newNumbersOf(input, res),
   results              |-> [i \in 1..Len(input) |-> res[input[i]]],
   totalInputNumbers    |-> Len(input),
   uniqueInputNumbers   |-> uniqueInputNumbersOf(input),
   intraInputDuplicates |-> intraInputDuplicatesOf(input),
   databaseDuplicates   |-> Dedup(duplicateNumbersOf(input, res)),
   uniqueNewNumbers     |-> Dedup(newNumbersOf(input, res))]

-----------------------------------------------------------------------------
(* Classifier harness *)

MaxBatch == 4

RawPlain  == <<"+", "1", "2", "3", "4", "5", "6", "7">>
RawSpaced == <<"+", "1", " ", "2", "3", "4", "5", "6", "7">>
RawBad    == <<"b", "a", "d">>
RawIntl   == <<"0", "0", "4", "4", "1", "2", "3", "4", "5">>
RawLocal  == <<"1", "2", "3", "4", "5", "6", "7", "8", "9", "0">>

RawIds == {RawPlain, RawSpaced, RawBad, RawIntl, RawLocal}

Row(phoneNumber) ==
  [phone_number |-> phoneNumber,
   normalized_number |-> normalizePhoneNumber(phoneNumber)]

StoredBefore == {Row(RawPlain), Row(RawIntl)}

InitClassify ==
  /\ NormIdle
  /\ StoreIdle
  /\ LimIdle
  /\ DashIdle
  /\ DispIdle
  /\ RouteIdle
  /\ phoneNumbers \in SeqsUpTo(RawIds, MaxBatch)
  /\ db \in SUBSET StoredBefore
  /\ uniqueResults = <<>>
  /\ lookups = <<>>
  /\ lookupFailed = {}
  /\ bulk = NoResult
  /\ cpc = "validating"

\* for (const phoneNumber of uniqueInputNumbers) { await validatePhoneNumber }
ValidateNext ==
  /\ cpc = "validating"
  /\ LET u == uniqueInputNumbersOf(phoneNumbers)
         k == Cardinality(DOMAIN uniqueResults) + 1
     IN /\ k <= Len(u)
        /\ \E queryOk \in BOOLEAN :
             /\ uniqueResults' =
                  (u[k] :> validatePhoneNumber(u[k], db, queryOk)) @@ uniqueResults
             /\ IF isValidPhoneNumber(u[k])
                THEN /\ lookups' = Append(lookups, normalizePhoneNumber(u[k]))
                     /\ lookupFailed' =
                          IF queryOk THEN lookupFailed ELSE lookupFailed \cup {u[k]}
                ELSE /\ queryOk
                     /\ UNCHANGED <<lookups, lookupFailed>>
  /\ UNCHANGED <<phoneNumbers, db, bulk, cpc, normVars, storeVars, limVars, dashVars, dispVars, routeVars>>

\* the second pass over the original array, and the return
ValidateReturn ==
  /\ cpc = "validating"
  /\ Cardinality(DOMAIN uniqueResults) = Len(uniqueInputNumbersOf(phoneNumbers))
  /\ bulk' = BulkValidationResult(phoneNumbers, uniqueResults)
  /\ cpc' = "returned"
  /\ UNCHANGED <<phoneNumbers, db, uniqueResults, lookups, lookupFailed,
                 normVars, storeVars, limVars, dashVars, dispVars, routeVars>>

NextClassify == ValidateNext \/ ValidateReturn

SpecClassify == InitClassify /\ [][NextClassify]_vars

-----------------------------------------------------------------------------
(* lib/rateLimiter: RateLimiter.checkLimit, waitForLimit and the two       *)
(* instances twilioPerSecondLimiter, twilioSMSRateLimiter                  *)

PerSecondWindowMs == 1000
PerMinuteWindowMs == 60000
\* TWILIO_RATE_LIMIT_PER_SECOND (default) and TWILIO_RATE_LIMIT_PER_MINUTE
PerSecondLimit == 1
PerMinuteLimit == 3

windowMs(l)    == IF l = "perSecond" THEN PerSecondWindowMs ELSE PerMinuteWindowMs
maxRequests(l) == IF l = "perSecond" THEN PerSecondLimit ELSE PerMinuteLimit

Scope == "whatsapp"

\* this.requests.get(identifier) || []
HistoryOf(l, identifier) ==
  IF identifier \in DOMAIN requests[l] THEN requests[l][identifier] ELSE <<>>

\* mutant: a sample exactly one window old still counts
InWindowInclusive(history, windowStart) ==
  LET Test(record) == record.timestamp >= windowStart IN SelectSeq(history, Test)

\* requestHistory.filter(record => record.timestamp > windowStart)
InWindow(history, windowStart) ==
  LET Test(record) == record.timestamp > windowStart IN SelectSeq(history, Test)

RECURSIVE TotalRequests(_)
TotalRequests(history) ==
  IF history = <<>> THEN 0 ELSE history[1].count + TotalRequests(Tail(history))

\* mutant: the limit test is > instead of >=
OverLimitOffByOne(total, max) == total > max

\* totalRequests >= this.maxRequests
OverLimit(total, max) == total >= max

\* mutant: the reset time is counted from the denied call
ResetTimeFromNow(requestHistory, l, t) == t + windowMs(l)

\* oldestRequest ? oldestRequest.timestamp + this.windowMs : now + this.windowMs
ResetTime(requestHistory, l, t) ==
  IF requestHistory # <<>>
  THEN requestHistory[1].timestamp + windowMs(l)
  ELSE t + windowMs(l)

\* mutant: the sample is pushed onto the stored array, not the filtered one
PushSampleUnfiltered(l, identifier, requestHistory, t) ==
  Append(HistoryOf(l, identifier), [timestamp |-> t, count |-> 1])

\* requestHistory.push({ timestamp: now, count: 1 })
PushSample(l, identifier, requestHistory, t) ==
  Append(requestHistory, [timestamp |-> t, count |-> 1])

\* checkLimit at time t: the answer and the history it leaves in the map
checkLimit(l, identifier, t) ==
  LET requestHistory == InWindow(HistoryOf(l, identifier), t - windowMs(l))
      totalRequests  == TotalRequests(requestHistory)
  IN IF OverLimit(totalRequests, maxRequests(l))
     THEN [allowed   |-> FALSE,
           resetTime |-> ResetTime(requestHistory, l, t),
           stored    |-> requests[l]]
     ELSE [allowed   |-> TRUE,
           resetTime |-> 0,
           stored    |-> (identifier :> PushSample(l, identifier, requestHistory, t))
                         @@ requests[l]]

-----------------------------------------------------------------------------
(* lib/twilio: TwilioService.cleanPhoneNumber, isValidPhoneNumber,         *)
(* sendWhatsApp, sendBulkWhatsApp                                          *)

cleanPhoneNumber(phoneNumber) ==
  LET cleaned == StripNonPhone(phoneNumber) IN
  IF Len(cleaned) = 11 /\ StartsWith(cleaned, <<"1">>) THEN <<"+">> \o cleaned
  ELSE IF Len(cleaned) = 10 THEN <<"+", "1">> \o cleaned
  ELSE IF ~StartsWith(cleaned, <<"+">>) THEN <<"+">> \o cleaned
  ELSE cleaned

\* /^\+[1-9]\d{1,14}$/
isValidTwilioNumber(s) ==
  /\ Len(s) >= 3
  /\ Len(s) <= 16
  /\ s[1] = "+"
  /\ s[2] \in Digits \ {"0"}
  /\ \A i \in 3..Len(s) : s[i] \in Digits

InvalidFormatText == <<"Invalid phone number format">>
OutsideWindowText ==
  <<"Outside 24-hour window. Use a message template instead of freeform message.">>
NoPayloadText     == <<"Either message or template must be provided">>

WindowCode == <<"6", "3", "0", "1", "6">>

\* the provider's error codes: 63016 is "outside the allowed window"
CodeOutsideWindow == "63016"
CodeInvalidTo     == "21211"

NoError == [code |-> "", message |-> <<>>]

\* what client.messages.create can throw: the provider's code and message text
MsgWindowWithCode == <<"e", "r", "r", " ", "6", "3", "0", "1", "6">>
MsgWindowNoCode   == <<"o", "u", "t", "s", "i", "d", "e">>
MsgBadToNumber    == <<"b", "a", "d", " ", "+", "1", "6", "3", "0", "1", "6", "5">>
MsgBadTo          == <<"b", "a", "d", " ", "t", "o">>

AllTransportErrors ==
  { [code |-> CodeOutsideWindow, message |-> MsgWindowWithCode],
    [code |-> CodeOutsideWindow, message |-> MsgWindowNoCode],
    [code |-> CodeInvalidTo,     message |-> MsgBadToNumber],
    [code |-> CodeInvalidTo,     message |-> MsgBadTo] }

Failure(to, text) ==
  [phoneNumber |-> to, success |-> FALSE, messageId |-> <<>>, error |-> text]

Success(to, sid) ==
  [phoneNumber |-> to, success |-> TRUE, messageId |-> sid, error |-> <<>>]

\* the catch block of sendWhatsApp
CaughtResult(to, err) ==
  IF Includes(err.message, WindowCode)
  THEN Failure(to, OutsideWindowText)
  ELSE Failure(to, err.message)

\* mutant: the loop stops at the first failed result
NextIdxBreakOnFailure(t, result) ==
  IF result.success THEN idx[t] + 1 ELSE Len(batch[t]) + 1

\* for (const phoneNumber of phoneNumbers): the loop goes on to the next
\* number whatever the result was
NextIdx(t, result) == idx[t] + 1

\* mutant: a failed result is counted but not pushed
RecordedDropFailures(t, result) ==
  IF result.success THEN Append(results[t], result) ELSE results[t]

\* results.push(result)
Recorded(t, result) == Append(results[t], result)

\* mutant: totalSent is incremented for every result
SentAfterAlways(t, result) == totalSent[t] + 1

\* if (result.success) totalSent++
SentAfter(t, result) == IF result.success THEN totalSent[t] + 1 ELSE totalSent[t]

\* results.push(result); totalSent++ / totalFailed++
PushResult(t, result, err) ==
  /\ results' = [results EXCEPT ![t] = Recorded(t, result)]
  /\ thrown' = [thrown EXCEPT ![t] = Append(@, err)]
  /\ totalSent' = [totalSent EXCEPT ![t] = SentAfter(t, result)]
  /\ totalFailed' = [totalFailed EXCEPT ![t] = IF result.success THEN @ ELSE @ + 1]
  /\ idx' = [idx EXCEPT ![t] = NextIdx(t, result)]

TickMs == PerSecondWindowMs \div 2

Max(a, b) == IF a >= b THEN a ELSE b

\* mutant: the number is not validated again before the gates
FormatRejectedNever(to) == FALSE

\* if (!this.isValidPhoneNumber(cleanedNumber)) return { success: false, ... }
FormatRejected(to) == ~isValidTwilioNumber(cleanPhoneNumber(to))

\* loop head of sendBulkWhatsApp and the format check of sendWhatsApp
StartItem(t) ==
  /\ pc[t] = "loop"
  /\ idx[t] <= Len(batch[t])
  /\ LET to == batch[t][idx[t]] IN
     IF FormatRejected(to)
     THEN /\ PushResult(t, Failure(to, InvalidFormatText), NoError)
          /\ UNCHANGED <<pc, checks>>
     ELSE /\ pc' = [pc EXCEPT ![t] = "perSecond"]
          /\ checks' = [checks EXCEPT ![t] = [l \in Limiters |-> 0]]
          /\ UNCHANGED <<results, thrown, totalSent, totalFailed, idx>>
  /\ UNCHANGED <<gateVars, batch, options, wakeAt, summary, sendLog,
                 envVars, normVars, storeVars, limVars, dashVars, classVars, routeVars>>

AfterGate(l) == IF l = "perSecond" THEN "perMinute" ELSE "build"

\* mutant: the timer is armed with resetTime itself, not resetTime - Date.now()
SleepUntilAbsolute(resetTime, t) == t + resetTime

\* const waitTime = result.resetTime - Date.now(); setTimeout(resolve, waitTime)
SleepUntil(resetTime, t) == t + (resetTime - t)

\* mutant: after the sleep the limit is checked again
AfterSleepRecheck(l) == l

\* after the sleep waitForLimit returns: no loop, no second checkLimit
AfterSleep(l) == AfterGate(l)

\* await limiter.waitForLimit("whatsapp"): one checkLimit, then a sleep if denied
WaitForLimit(t, l) ==
  /\ pc[t] = l
  /\ LET result == checkLimit(l, Scope, now) IN
     /\ requests' = [requests EXCEPT ![l] = result.stored]
     /\ allowedLog' = [allowedLog EXCEPT ![l] =
                         IF result.allowed
                         THEN @ \cup {[task |-> t, index |-> idx[t], at |-> now]}
                         ELSE @]
     /\ IF ~result.allowed /\ result.resetTime # 0 /\ result.resetTime - now > 0
        THEN /\ wakeAt' = [wakeAt EXCEPT ![t] = SleepUntil(result.resetTime, now)]
             /\ pc' = [pc EXCEPT ![t] = "sleep_" \o l]
        ELSE /\ pc' = [pc EXCEPT ![t] = AfterGate(l)]
             /\ UNCHANGED wakeAt
  /\ checks' = [checks EXCEPT ![t][l] = @ + 1]
  /\ UNCHANGED <<now, batch, options, idx, results, totalSent, totalFailed,
                 summary, thrown, sendLog, envVars, normVars, storeVars, limVars, dashVars, classVars, routeVars>>

\* the setTimeout of waitForLimit fires, at resetTime or later
Wake(t, l) ==
  /\ pc[t] = "sleep_" \o l
  /\ \E late \in timerLateness : now' = Max(now, wakeAt[t]) + late
  /\ pc' = [pc EXCEPT ![t] = AfterSleep(l)]
  /\ UNCHANGED <<requests, allowedLog, batch, options, idx, wakeAt, results,
                 totalSent, totalFailed, summary, thrown, sendLog, checks,
                 envVars, normVars, storeVars, limVars, dashVars, classVars, routeVars>>

\* the payload is built and client.messages.create is called
CallTransport(t) ==
  /\ pc[t] = "build"
  /\ IF options[t] = "none"
     THEN /\ PushResult(t, Failure(batch[t][idx[t]], NoPayloadText), NoError)
          /\ pc' = [pc EXCEPT ![t] = "loop"]
          /\ UNCHANGED sendLog
     ELSE /\ sendLog' = sendLog \cup {[task |-> t, index |-> idx[t], at |-> now]}
          /\ pc' = [pc EXCEPT ![t] = "create"]
          /\ UNCHANGED <<results, thrown, totalSent, totalFailed, idx>>
  /\ UNCHANGED <<gateVars, batch, options, wakeAt, summary, envVars, checks,
                 normVars, storeVars, limVars, dashVars, classVars, routeVars>>

\* client.messages.create resolves with a sid
TransportResolves(t) ==
  /\ pc[t] = "create"
  /\ \E d \in transportLatencies : now' = now + d
  /\ PushResult(t, Success(batch[t][idx[t]], <<t, idx[t]>>), NoError)
  /\ pc' = [pc EXCEPT ![t] = "loop"]
  /\ UNCHANGED <<requests, allowedLog, batch, options, wakeAt, summary, sendLog,
                 checks, envVars, normVars, storeVars, limVars, dashVars, classVars, routeVars>>

\* client.messages.create rejects; the catch block builds the result
TransportRejects(t) ==
  /\ pc[t] = "create"
  /\ \E d \in transportLatencies : now' = now + d
  /\ \E err \in transportErrors :
       PushResult(t, CaughtResult(batch[t][idx[t]], err), err)
  /\ pc' = [pc EXCEPT ![t] = "loop"]
  /\ UNCHANGED <<requests, allowedLog, batch, options, wakeAt, summary, sendLog,
                 checks, envVars, normVars, storeVars, limVars, dashVars, classVars, routeVars>>

\* return { totalSent, totalFailed, results }
ReturnSummary(t) ==
  /\ pc[t] = "loop"
  /\ idx[t] > Len(batch[t])
  /\ summary' = [summary EXCEPT ![t] =
                   [totalSent |-> totalSent[t], totalFailed |-> totalFailed[t],
                    results |-> results[t]]]
  /\ pc' = [pc EXCEPT ![t] = "done"]
  /\ UNCHANGED <<gateVars, batch, options, idx, wakeAt, results, totalSent,
                 totalFailed, thrown, sendLog, checks, envVars, normVars, storeVars, limVars, dashVars, classVars, routeVars>>

TaskStep(t) ==
  \/ StartItem(t)
  \/ \E l \in Limiters : WaitForLimit(t, l)
  \/ \E l \in Limiters : Wake(t, l)
  \/ CallTransport(t)
  \/ TransportResolves(t)
  \/ TransportRejects(t)
  \/ ReturnSummary(t)

-----------------------------------------------------------------------------
(* One sequential dispatch: a single sendBulkWhatsApp call, no other caller *)

MaxDispatch == 3

DispatchIds == {RawPlain, RawLocal, RawBad}

InitDispatch ==
  /\ NormIdle
  /\ StoreIdle
  /\ LimIdle
  /\ DashIdle
  /\ ClassIdle
  /\ RouteIdle
  /\ now = 0
  /\ requests = [l \in Limiters |-> <<>>]
  /\ allowedLog = [l \in Limiters |-> {}]
  /\ batch \in {[t \in Tasks |-> IF t = "t1" THEN b ELSE <<>>] :
                  b \in SeqsUpTo(DispatchIds, MaxDispatch)}
  /\ options \in {[t \in Tasks |-> IF t = "t1" THEN o ELSE "none"] :
                    o \in {"message", "none"}}
  /\ idx = [t \in Tasks |-> 1]
  /\ pc = [t \in Tasks |-> IF t = "t1" THEN "loop" ELSE "idle"]
  /\ wakeAt = [t \in Tasks |-> 0]
  /\ results = [t \in Tasks |-> <<>>]
  /\ totalSent = [t \in Tasks |-> 0]
  /\ totalFailed = [t \in Tasks |-> 0]
  /\ summary = [t \in Tasks |-> NoResult]
  /\ thrown = [t \in Tasks |-> <<>>]
  /\ sendLog = {}
  /\ checks = [t \in Tasks |-> [l \in Limiters |-> 0]]
  /\ transportErrors = AllTransportErrors
  /\ transportLatencies = {TickMs, 2 * TickMs}
  /\ timerLateness = {0, TickMs}

NextDispatch ==
  \/ StartItem("t1")
  \/ \E l \in Limiters : WaitForLimit("t1", l)
  \/ \E l \in Limiters : Wake("t1", l)
  \/ CallTransport("t1")
  \/ TransportResolves("t1")
  \/ TransportRejects("t1")
  \/ ReturnSummary("t1")

SpecDispatch == InitDispatch /\ [][NextDispatch]_vars

-----------------------------------------------------------------------------
(* One sequential dispatch that is scheduled fairly: the event loop runs     *)
(* every continuation that is ready, an armed timer fires, and every         *)
(* client.messages.create call resolves or rejects.  The clock does not      *)
(* start at zero.                                                            *)

InitDispatchLive ==
  /\ NormIdle
  /\ StoreIdle
  /\ LimIdle
  /\ DashIdle
  /\ ClassIdle
  /\ RouteIdle
  /\ now = TickMs
  /\ requests = [l \in Limiters |-> <<>>]
  /\ allowedLog = [l \in Limiters |-> {}]
  /\ batch \in {[t \in Tasks |-> IF t = "t1" THEN b ELSE <<>>] :
                  b \in SeqsUpTo(DispatchIds, MaxDispatch)}
  /\ options \in {[t \in Tasks |-> IF t = "t1" THEN o ELSE "none"] :
                    o \in {"message", "none"}}
  /\ idx = [t \in Tasks |-> 1]
  /\ pc = [t \in Tasks |-> IF t = "t1" THEN "loop" ELSE "idle"]
  /\ wakeAt = [t \in Tasks |-> 0]
  /\ results = [t \in Tasks |-> <<>>]
  /\ totalSent = [t \in Tasks |-> 0]
  /\ totalFailed = [t \in Tasks |-> 0]
  /\ summary = [t \in Tasks |-> NoResult]
  /\ thrown = [t \in Tasks |-> <<>>]
  /\ sendLog = {}
  /\ checks = [t \in Tasks |-> [l \in Limiters |-> 0]]
  /\ transportErrors = {[code |-> CodeInvalidTo, message |-> MsgBadTo]}
  /\ transportLatencies = {TickMs, 2 * TickMs}
  /\ timerLateness = {0, TickMs}

SpecDispatchLive ==
  InitDispatchLive /\ [][NextDispatch]_vars /\ WF_vars(NextDispatch)

-----------------------------------------------------------------------------
(* Concurrent batches: two sendBulkWhatsApp calls share the two limiters *)

ConcurrentBatches == {<<RawPlain>>, <<RawPlain, RawPlain>>}

InitConcurrent ==
  /\ NormIdle
  /\ StoreIdle
  /\ LimIdle
  /\ DashIdle
  /\ ClassIdle
  /\ RouteIdle
  /\ now = 0
  /\ requests = [l \in Limiters |-> <<>>]
  /\ allowedLog = [l \in Limiters |-> {}]
  /\ batch \in [Tasks -> ConcurrentBatches]
  /\ options = [t \in Tasks |-> "message"]
  /\ idx = [t \in Tasks |-> 1]
  /\ pc = [t \in Tasks |-> "loop"]
  /\ wakeAt = [t \in Tasks |-> 0]
  /\ results = [t \in Tasks |-> <<>>]
  /\ totalSent = [t \in Tasks |-> 0]
  /\ totalFailed = [t \in Tasks |-> 0]
  /\ summary = [t \in Tasks |-> NoResult]
  /\ thrown = [t \in Tasks |-> <<>>]
  /\ sendLog = {}
  /\ checks = [t \in Tasks |-> [l \in Limiters |-> 0]]
  /\ transportErrors = {[code |-> CodeInvalidTo, message |-> MsgBadTo]}
  /\ transportLatencies = {TickMs}
  /\ timerLateness = {0}

NextConcurrent == \E t \in Tasks : TaskStep(t)

SpecConcurrent == InitConcurrent /\ [][NextConcurrent]_vars

-----------------------------------------------------------------------------
(* app/api/sms/send/route.ts: POST, with the history bookkeeping of        *)
(* lib/numberValidation (storePhoneNumbers, updateLastSent,                *)
(* recordTemplateSend)                                                     *)

MaxNumbersPerRequest == 100
MaxMessageLength     == 1600

\* the request body: what it carries as message, template and templateName
Payloads ==
  {"none", "message", "longMessage", "blankMessage", "templateName", "templateObject"}

IsTemplatePayload(payload) == payload \in {"templateName", "templateObject"}

\* message.length
MessageLength(payload) ==
  IF payload = "longMessage" THEN MaxMessageLength + 1
  ELSE IF payload = "blankMessage" THEN 3
  ELSE 5

\* options.template / options.message = message.trim(), as sendWhatsApp sees them
OptionsOf(payload) ==
  IF IsTemplatePayload(payload) THEN "template"
  ELSE IF payload = "blankMessage" THEN "none"
  ELSE "message"

Response(status, error, data) == [status |-> status, error |-> error, data |-> data]

\* INSERT ... ON CONFLICT (phone_number) DO UPDATE, for every number, in one
\* transaction
storePhoneNumbers(rows, numbers) ==
  rows \cup {Row(numbers[i]) : i \in 1..Len(numbers)}

\* mutant: the route awaits the bookkeeping promises before it answers
BookkeepingAwaitedAlways == TRUE

\* Promise.all(...) is started and not awaited
BookkeepingAwaited == FALSE

\* the bookkeeping promises started for a dispatch result: updateLastSent for
\* every successful result and, when templateName was given, recordTemplateSend
Spawned(outcomes, payload) ==
  {[kind |-> "updateLastSent", index |-> i] :
     i \in {j \in 1..Len(outcomes) : outcomes[j].success}}
  \cup
  (IF payload = "templateName"
   THEN {[kind |-> "recordTemplateSend", index |-> i] :
           i \in {j \in 1..Len(outcomes) : outcomes[j].success}}
   ELSE {})

OkData == [totalSent   |-> summary["t1"].totalSent,
           totalFailed |-> summary["t1"].totalFailed,
           results     |-> summary["t1"].results,
           invalidNumbers   |-> bulk.invalidNumbers,
           duplicateNumbers |-> bulk.duplicateNumbers,
           newNumbers       |-> bulk.newNumbers]

\* the request is checked before anything else is done
RouteValidateRequest ==
  /\ rpc = "received"
  /\ IF Len(req.phoneNumbers) = 0
     THEN /\ response' = Response(400, "Phone numbers array is required and cannot be empty", NoResult)
          /\ rpc' = "responded"
     ELSE IF req.payload = "none"
     THEN /\ response' = Response(400, "Either message or template must be provided", NoResult)
          /\ rpc' = "responded"
     ELSE IF Len(req.phoneNumbers) > MaxNumbersPerRequest
     THEN /\ response' = Response(400, "Maximum 100 phone numbers allowed per request", NoResult)
          /\ rpc' = "responded"
     ELSE /\ rpc' = "migrate"
          /\ UNCHANGED response
  /\ UNCHANGED <<req, pending, settled, errorLog, sendCount, templateSends,
                 normVars, storeVars, limVars, dashVars, classVars, dispVars>>

\* await runMigrations(); then validatePhoneNumbers(phoneNumbers) is called
RouteMigrate ==
  /\ rpc = "migrate"
  /\ \E ok \in BOOLEAN :
       IF ok
       THEN /\ phoneNumbers' = req.phoneNumbers
            /\ cpc' = "validating"
            /\ rpc' = "validate"
            /\ UNCHANGED response
       ELSE /\ response' = Response(500, "Database setup failed. Please try again.", NoResult)
            /\ rpc' = "responded"
            /\ UNCHANGED <<phoneNumbers, cpc>>
  /\ UNCHANGED <<req, pending, settled, errorLog, sendCount, templateSends,
                 db, uniqueResults, lookups, lookupFailed, bulk, normVars, storeVars, limVars, dashVars, dispVars>>

\* validatePhoneNumbers returned: the new numbers are stored; a failure of the
\* store is logged and the route goes on
RouteStore ==
  /\ rpc = "validate"
  /\ cpc = "returned"
  /\ IF bulk.newNumbers # <<>>
     THEN \E ok \in BOOLEAN :
            db' = IF ok THEN storePhoneNumbers(db, bulk.newNumbers) ELSE db
     ELSE UNCHANGED db
  /\ rpc' = "prepare"
  /\ UNCHANGED <<req, response, pending, settled, errorLog, sendCount, templateSends,
                 phoneNumbers, uniqueResults, lookups, lookupFailed, bulk, cpc,
                 normVars, storeVars, limVars, dashVars, dispVars>>

\* numbersToSend and options are built; sendBulkWhatsApp is called
RoutePrepare ==
  /\ rpc = "prepare"
  /\ IF bulk.validNumbers = <<>>
     THEN /\ response' = Response(400, "No valid phone numbers to send to", NoResult)
          /\ rpc' = "responded"
          /\ UNCHANGED <<batch, options, pc>>
     ELSE IF ~IsTemplatePayload(req.payload)
             /\ MessageLength(req.payload) > MaxMessageLength
     THEN /\ response' = Response(400, "Message is too long. Maximum length is 1600 characters.", NoResult)
          /\ rpc' = "responded"
          /\ UNCHANGED <<batch, options, pc>>
     ELSE /\ batch' = [batch EXCEPT !["t1"] = bulk.validNumbers]
          /\ options' = [options EXCEPT !["t1"] = OptionsOf(req.payload)]
          /\ pc' = [pc EXCEPT !["t1"] = "loop"]
          /\ rpc' = "dispatch"
          /\ UNCHANGED response
  /\ UNCHANGED <<req, pending, settled, errorLog, sendCount, templateSends,
                 gateVars, idx, wakeAt, results, totalSent, totalFailed, summary,
                 thrown, sendLog, checks, envVars, normVars, storeVars, limVars, dashVars, classVars>>

\* sendBulkWhatsApp returned: the bookkeeping promises are started and the
\* response is returned
RouteFinish ==
  /\ rpc = "dispatch"
  /\ pc["t1"] = "done"
  /\ pending' = Spawned(summary["t1"].results, req.payload)
  /\ IF BookkeepingAwaited /\ pending' # {}
     THEN /\ rpc' = "awaiting"
          /\ UNCHANGED response
     ELSE /\ rpc' = "responded"
          /\ response' = Response(200, "", OkData)
  /\ UNCHANGED <<req, settled, errorLog, sendCount, templateSends,
                 normVars, storeVars, limVars, dashVars, classVars, dispVars>>

\* what a settled bookkeeping promise leaves for a route that awaited it
AfterSettle(left) ==
  IF rpc = "awaiting" /\ left = {}
  THEN /\ rpc' = "responded"
       /\ response' = Response(200, "", OkData)
  ELSE UNCHANGED <<rpc, response>>

\* updateLastSent(number): one UPDATE by normalized_number; an error of the
\* query is caught and logged inside
BookUpdateLastSent(b) ==
  /\ b \in pending
  /\ b.kind = "updateLastSent"
  /\ LET number == summary["t1"].results[b.index].phoneNumber
         touched == {r.phone_number : r \in
                       {x \in db : x.normalized_number = normalizePhoneNumber(number)}}
     IN \E ok \in BOOLEAN :
          /\ sendCount' =
               IF ok
               THEN [n \in DOMAIN sendCount \cup touched |->
                       IF n \in touched
                       THEN (IF n \in DOMAIN sendCount THEN sendCount[n] ELSE 0) + 1
                       ELSE sendCount[n]]
               ELSE sendCount
          /\ errorLog' = IF ok THEN errorLog ELSE errorLog \cup {b}
          /\ settled' = settled \cup {[task |-> b, ok |-> ok]}
  /\ pending' = pending \ {b}
  /\ AfterSettle(pending')
  /\ UNCHANGED <<req, templateSends, normVars, storeVars, limVars, dashVars, classVars, dispVars>>

\* recordTemplateSend(number, templateName, ...): the row is looked up and a
\* template_sends row inserted; any error, and a missing row, is logged
BookRecordTemplateSend(b) ==
  /\ b \in pending
  /\ b.kind = "recordTemplateSend"
  /\ LET r == summary["t1"].results[b.index]
         found == checkNumberExists(r.phoneNumber, db)
     IN \E ok \in BOOLEAN :
          /\ templateSends' =
               IF ok /\ found
               THEN templateSends \cup
                      {[number |-> normalizePhoneNumber(r.phoneNumber),
                        template_sid |-> req.payload,
                        message_sid |-> r.messageId]}
               ELSE templateSends
          /\ errorLog' = IF ok /\ found THEN errorLog ELSE errorLog \cup {b}
          /\ settled' = settled \cup {[task |-> b, ok |-> ok /\ found]}
  /\ pending' = pending \ {b}
  /\ AfterSettle(pending')
  /\ UNCHANGED <<req, sendCount, normVars, storeVars, limVars, dashVars, classVars, dispVars>>

MaxRouteBatch == 2

RouteIds == {RawPlain, RawLocal, RawBad}

InitRoute ==
  /\ NormIdle
  /\ StoreIdle
  /\ LimIdle
  /\ DashIdle
  /\ phoneNumbers = <<>> /\ uniqueResults = <<>> /\ lookups = <<>>
  /\ lookupFailed = {} /\ bulk = NoResult /\ cpc = "idle"
  /\ db \in SUBSET StoredBefore
  /\ now = 0
  /\ requests = [l \in Limiters |-> <<>>]
  /\ allowedLog = [l \in Limiters |-> {}]
  /\ batch = [t \in Tasks |-> <<>>]
  /\ options = [t \in Tasks |-> "none"]
  /\ idx = [t \in Tasks |-> 1]
  /\ pc = [t \in Tasks |-> "idle"]
  /\ wakeAt = [t \in Tasks |-> 0]
  /\ results = [t \in Tasks |-> <<>>]
  /\ totalSent = [t \in Tasks |-> 0]
  /\ totalFailed = [t \in Tasks |-> 0]
  /\ summary = [t \in Tasks |-> NoResult]
  /\ thrown = [t \in Tasks |-> <<>>]
  /\ sendLog = {}
  /\ checks = [t \in Tasks |-> [l \in Limiters |-> 0]]
  /\ transportErrors = {[code |-> CodeInvalidTo, message |-> MsgBadTo]}
  /\ transportLatencies = {TickMs}
  /\ timerLateness = {0}
  /\ req \in [phoneNumbers : SeqsUpTo(RouteIds, MaxRouteBatch), payload : Payloads]
  /\ rpc = "received"
  /\ response = NoResult
  /\ pending = {} /\ settled = {} /\ errorLog = {}
  /\ sendCount = [n \in {} |-> 0]
  /\ templateSends = {}

NextRoute ==
  \/ RouteValidateRequest
  \/ RouteMigrate
  \/ ValidateNext
  \/ ValidateReturn
  \/ RouteStore
  \/ RoutePrepare
  \/ StartItem("t1")
  \/ \E l \in Limiters : WaitForLimit("t1", l)
  \/ \E l \in Limiters : Wake("t1", l)
  \/ CallTransport("t1")
  \/ TransportResolves("t1")
  \/ TransportRejects("t1")
  \/ ReturnSummary("t1")
  \/ RouteFinish
  \/ \E b \in pending : BookUpdateLastSent(b)
  \/ \E b \in pending : BookRecordTemplateSend(b)

SpecRoute == InitRoute /\ [][NextRoute]_vars

-----------------------------------------------------------------------------
(* Concurrent storePhoneNumbers calls: each runs its INSERT ... ON CONFLICT  *)
(* (phone_number) statements inside one transaction (BEGIN ... COMMIT, or    *)
(* ROLLBACK when a query throws) on the phone_numbers table, whose only      *)
(* unique column besides id is phone_number.                                 *)

MaxStore == 2

StoreIds == {RawPlain, RawSpaced, RawLocal}

TableRow(id, phoneNumber, owner) ==
  [id |-> id, phone_number |-> phoneNumber,
   normalized_number |-> normalizePhoneNumber(phoneNumber), owner |-> owner]

Committed(rows) == {r \in rows : r.owner = ""}

InitStore ==
  /\ NormIdle
  /\ LimIdle
  /\ DashIdle
  /\ ClassIdle
  /\ DispIdle
  /\ RouteIdle
  /\ table \in {{}, {TableRow(1, RawLocal, "")}}
  /\ nextId = Cardinality(table) + 1
  /\ stx \in [StoreTasks ->
                {[numbers |-> n, pos |-> 1, state |-> "begin", issued |-> <<>>,
                  released |-> 0, error |-> "", thrown |-> "", inserted |-> {}] :
                   n \in SeqsUpTo(StoreIds, MaxStore)}]

\* if (phoneNumbers.length === 0) return []; otherwise transaction():
\* getClient() outside the try, then BEGIN inside it
StoreBegin(s) ==
  /\ stx[s].state = "begin"
  /\ IF stx[s].numbers = <<>>
     THEN stx' = [stx EXCEPT ![s].state = "done"]
     ELSE \E outcome \in {"ok", "getClient", "BEGIN"} :
            stx' = [stx EXCEPT
              ![s].state  = CASE outcome = "ok"        -> "insert"
                              [] outcome = "getClient" -> "failed"
                              [] OTHER                 -> "rollback",
              ![s].issued = IF outcome = "getClient" THEN <<>> ELSE <<"BEGIN">>,
              ![s].error  = IF outcome = "ok" THEN "" ELSE outcome,
              ![s].thrown = IF outcome = "getClient" THEN outcome ELSE ""]
  /\ UNCHANGED <<table, nextId, normVars, classVars, dispVars, routeVars,
                 limVars, dashVars>>

\* one INSERT ... ON CONFLICT (phone_number) DO UPDATE: it waits while another
\* open transaction holds an uncommitted row with this phone_number; a row
\* this transaction can see makes it an UPDATE, otherwise a row is inserted
StoreInsert(s) ==
  /\ stx[s].state = "insert"
  /\ stx[s].pos <= Len(stx[s].numbers)
  /\ LET phoneNumber == stx[s].numbers[stx[s].pos]
         same == {r \in table : r.phone_number = phoneNumber}
     IN /\ \A r \in same : r.owner \in {"", s}
        /\ IF same # {}
           THEN /\ UNCHANGED <<table, nextId>>
                /\ stx' = [stx EXCEPT ![s].pos = @ + 1]
           ELSE /\ table' = table \cup {TableRow(nextId, phoneNumber, s)}
                /\ nextId' = nextId + 1
                /\ stx' = [stx EXCEPT ![s].pos = @ + 1,
                                      ![s].inserted = @ \cup {nextId}]
  /\ UNCHANGED <<normVars, classVars, dispVars, routeVars,
                 limVars, dashVars>>

\* an INSERT throws: the callback rejects and the catch block is entered
StoreQueryFails(s) ==
  /\ stx[s].state = "insert"
  /\ stx[s].pos <= Len(stx[s].numbers)
  /\ stx' = [stx EXCEPT ![s].state = "rollback", ![s].error = "INSERT"]
  /\ UNCHANGED <<table, nextId, normVars, classVars, dispVars, routeVars,
                 limVars, dashVars>>

\* the loop is over: COMMIT. When the COMMIT rejects, the server may or may
\* not have made the transaction durable before the failure. When it resolves,
\* the result is returned and the finally block releases the client.
StoreCommit(s) ==
  /\ stx[s].state = "insert"
  /\ stx[s].pos > Len(stx[s].numbers)
  /\ \E ok \in BOOLEAN, durable \in BOOLEAN :
       /\ ok => durable
       /\ table' = IF durable
                   THEN {IF r.owner = s THEN [r EXCEPT !.owner = ""] ELSE r : r \in table}
                   ELSE table
       /\ stx' = [stx EXCEPT
            ![s].state    = IF ok THEN "done" ELSE "rollback",
            ![s].issued   = Append(@, "COMMIT"),
            ![s].error    = IF ok THEN "" ELSE "COMMIT",
            ![s].released = IF ok THEN @ + 1 ELSE @]
  /\ UNCHANGED <<nextId, normVars, classVars, dispVars, routeVars,
                 limVars, dashVars>>

\* catch (error) { await client.query("ROLLBACK"); throw error; }
Rethrown(error, rollbackOk) == IF rollbackOk THEN error ELSE "ROLLBACK"

\* the catch block, then finally { client.release(); }. The uncommitted rows
\* go away whether the ROLLBACK is answered or the connection it was sent on
\* is lost.
StoreRollback(s) ==
  /\ stx[s].state = "rollback"
  /\ \E rollbackOk \in BOOLEAN :
       stx' = [stx EXCEPT
         ![s].state    = "failed",
         ![s].issued   = Append(@, "ROLLBACK"),
         ![s].thrown   = Rethrown(stx[s].error, rollbackOk),
         ![s].released = @ + 1]
  /\ table' = {r \in table : r.owner # s}
  /\ UNCHANGED <<nextId, normVars, classVars, dispVars, routeVars,
                 limVars, dashVars>>

NextStore ==
  \E s \in StoreTasks :
    \/ StoreBegin(s)
    \/ StoreInsert(s)
    \/ StoreQueryFails(s)
    \/ StoreCommit(s)
    \/ StoreRollback(s)

SpecStore == InitStore /\ [][NextStore]_vars

-----------------------------------------------------------------------------
(* The RateLimiter's methods called directly, and the cleanup interval *)

MaxCalls == 7

ClockSteps == {TickMs, PerSecondWindowMs, PerMinuteWindowMs}

LimiterLateness == {0, TickMs}

\* mutant: cleanup keeps only half a window
CleanupCutoffHalfWindow(l, t) == t - windowMs(l) \div 2

\* const cutoff = now - this.windowMs * 2
CleanupCutoff(l, t) == t - windowMs(l) * 2

\* cleanup(): every identifier keeps the samples newer than the cutoff; an
\* identifier left with none is deleted from the map
cleanup(l, t) ==
  LET cutoff == CleanupCutoff(l, t)
      Newer(record) == record.timestamp > cutoff
      filtered(identifier) == SelectSeq(requests[l][identifier], Newer)
      kept == {identifier \in DOMAIN requests[l] : filtered(identifier) # <<>>}
  IN IF kept = {} THEN <<>> ELSE [identifier \in kept |-> filtered(identifier)]

InitLimiter ==
  /\ NormIdle
  /\ ClassIdle
  /\ DispIdle
  /\ RouteIdle
  /\ StoreIdle
  /\ LimIdle
  /\ DashIdle

\* limiter.checkLimit('whatsapp')
LimiterCheck(l) ==
  /\ calls < MaxCalls
  /\ requests' = [requests EXCEPT ![l] = checkLimit(l, Scope, now).stored]
  /\ calls' = calls + 1
  /\ lastCall' = "checkLimit"
  /\ UNCHANGED <<now, allowedLog, discarded, taskVars, envVars, normVars,
                 classVars, routeVars, storeVars, dashVars>>

\* await limiter.waitForLimit('whatsapp'): one checkLimit, and when it is
\* denied with a reset time ahead, one sleep until that time
LimiterWaitFor(l) ==
  /\ calls < MaxCalls
  /\ LET result   == checkLimit(l, Scope, now)
         waitTime == result.resetTime - now
     IN /\ requests' = [requests EXCEPT ![l] = result.stored]
        /\ IF ~result.allowed /\ waitTime > 0
           THEN \E late \in LimiterLateness :
                  now' = SleepUntil(result.resetTime, now) + late
           ELSE now' = now
  /\ calls' = calls + 1
  /\ lastCall' = "waitForLimit"
  /\ UNCHANGED <<allowedLog, discarded, taskVars, envVars, normVars,
                 classVars, routeVars, storeVars, dashVars>>

\* the interval callback: perMinuteLimit.cleanup(); perSecondLimit.cleanup()
LimiterCleanup ==
  /\ calls < MaxCalls
  /\ requests' = [l \in Limiters |-> cleanup(l, now)]
  /\ discarded' = discarded
       + (Len(HistoryOf("perMinute", Scope)) - Len(HistoryOf("perMinute", Scope)'))
       + (Len(HistoryOf("perSecond", Scope)) - Len(HistoryOf("perSecond", Scope)'))
  /\ calls' = calls + 1
  /\ lastCall' = "cleanup"
  /\ UNCHANGED <<now, allowedLog, taskVars, envVars, normVars,
                 classVars, routeVars, storeVars, dashVars>>

\* time passes between two calls
ClockAdvance(d) ==
  /\ calls < MaxCalls
  /\ now' = now + d
  /\ calls' = calls + 1
  /\ lastCall' = "none"
  /\ UNCHANGED <<requests, allowedLog, discarded, taskVars, envVars, normVars,
                 classVars, routeVars, storeVars, dashVars>>

NextLimiter ==
  \/ \E l \in Limiters : LimiterCheck(l)
  \/ \E l \in Limiters : LimiterWaitFor(l)
  \/ LimiterCleanup
  \/ \E d \in ClockSteps : ClockAdvance(d)

SpecLimiter == InitLimiter /\ [][NextLimiter]_vars

-----------------------------------------------------------------------------
(* The dashboard's send flow and its duplicate confirmation modal *)

\* POST /api/sms/validate-numbers: validatePhoneNumbers on the posted list
ValidateNumbers(numbers, rows, queryOk) ==
  BulkValidationResult(numbers,
    [p \in {numbers[i] : i \in DOMAIN numbers} |->
       validatePhoneNumber(p, rows, queryOk)])

InitDashboard ==
  /\ NormIdle
  /\ DispIdle
  /\ RouteIdle
  /\ StoreIdle
  /\ LimIdle
  /\ phoneNumbers \in SeqsUpTo(RawIds, MaxBatch)
  /\ db \in SUBSET StoredBefore
  /\ uniqueResults = <<>>
  /\ lookups = <<>>
  /\ lookupFailed = {}
  /\ bulk = NoResult
  /\ cpc = "idle"
  /\ dpc = "form"
  /\ modal = NoResult
  /\ submitted = NoResult

\* handleSubmit: validate, then show the modal or send at once
DashSubmit ==
  /\ dpc = "form"
  /\ \E responseOk \in BOOLEAN, queryOk \in BOOLEAN :
       LET validationData == ValidateNumbers(phoneNumbers, db, queryOk)
       IN IF phoneNumbers = <<>> \/ ~responseOk
          THEN /\ dpc' = "error"
               /\ UNCHANGED <<modal, submitted>>
          ELSE IF \/ validationData.duplicateNumbers # <<>>
                  \/ validationData.intraInputDuplicates # <<>>
          THEN /\ modal' = [newNumbers   |-> Len(validationData.uniqueNewNumbers),
                            totalNumbers |-> Len(phoneNumbers)]
               /\ dpc' = "modal"
               /\ UNCHANGED submitted
          ELSE /\ submitted' = phoneNumbers
               /\ dpc' = "sentAll"
               /\ UNCHANGED modal
  /\ UNCHANGED <<classVars, normVars, dispVars, routeVars, storeVars, limVars>>

\* 'Send to all': performSend(pendingSendData, false)
DashContinue ==
  /\ dpc = "modal"
  /\ submitted' = phoneNumbers
  /\ dpc' = "sentAll"
  /\ UNCHANGED <<modal, classVars, normVars, dispVars, routeVars, storeVars, limVars>>

\* 'Send only to N new numbers': the modal's guard, then
\* performSend(pendingSendData, true)
DashRemoveDuplicates ==
  /\ dpc = "modal"
  /\ \E responseOk \in BOOLEAN, queryOk \in BOOLEAN :
       LET validationData == ValidateNumbers(phoneNumbers, db, queryOk)
           list == IF responseOk THEN validationData.newNumbers ELSE phoneNumbers
       IN IF modal.newNumbers = 0
          THEN /\ dpc' = "closed"
               /\ UNCHANGED submitted
          ELSE IF list = <<>>
          THEN /\ dpc' = "noNewNumbers"
               /\ UNCHANGED submitted
          ELSE /\ submitted' = list
               /\ dpc' = "sentNew"
  /\ UNCHANGED <<modal, classVars, normVars, dispVars, routeVars, storeVars, limVars>>

\* the modal is dismissed
DashCancel ==
  /\ dpc = "modal"
  /\ dpc' = "closed"
  /\ UNCHANGED <<modal, submitted, classVars, normVars, dispVars, routeVars,
                 storeVars, limVars>>

NextDashboard ==
  \/ DashSubmit
  \/ DashContinue
  \/ DashRemoveDuplicates
  \/ DashCancel

SpecDashboard == InitDashboard /\ [][NextDashboard]_vars

-----------------------------------------------------------------------------
(* Claims *)

\* C6: normalize is idempotent: normalizing an already normalized string
\* returns it unchanged, for every input (leading 00, embedded '+', short).
C6_NormalizeIdempotent ==
  npc = "twice" => renormalized = normalized

\* a leading-00 input with an embedded '+' has been normalized twice
C6_Witness ==
  /\ npc = "twice"
  /\ StartsWith(raw, <<"0", "0", "0">>)
  /\ Includes(raw, <<"+">>)
  /\ normalized # raw

\* C1: if the lookup fails for any unique value, validatePhoneNumbers aborts
\* with an error and returns no classification result at all.
C1_LookupFailureAborts ==
  (cpc \in {"returned", "threw"} /\ lookupFailed # {}) =>
     (cpc = "threw" /\ bulk = NoResult)

\* C5: every occurrence is in exactly one of invalidNumbers, duplicateNumbers,
\* newNumbers (all occurrences of a raw value in the same one), each list is
\* the batch restricted to its values in batch order, and the three lengths
\* add up to the batch length, which is totalInputNumbers.
C5_Partition ==
  cpc = "returned" =>
    LET inv == bulk.invalidNumbers
        dup == bulk.duplicateNumbers
        new == bulk.newNumbers
        Vals(xs) == {xs[i] : i \in 1..Len(xs)}
        InInv(p) == p \in Vals(inv)
        InDup(p) == p \in Vals(dup)
        InNew(p) == p \in Vals(new)
    IN /\ Vals(inv) \cap Vals(dup) = {}
       /\ Vals(inv) \cap Vals(new) = {}
       /\ Vals(dup) \cap Vals(new) = {}
       /\ Vals(inv) \cup Vals(dup) \cup Vals(new) = Vals(phoneNumbers)
       /\ inv = SelectSeq(phoneNumbers, InInv)
       /\ dup = SelectSeq(phoneNumbers, InDup)
       /\ new = SelectSeq(phoneNumbers, InNew)
       /\ Len(inv) + Len(dup) + Len(new) = Len(phoneNumbers)
       /\ bulk.totalInputNumbers = Len(phoneNumbers)

\* a returned classification with all three lists non-empty and a repeated value
C5_Witness ==
  /\ cpc = "returned"
  /\ bulk.invalidNumbers # <<>>
  /\ bulk.duplicateNumbers # <<>>
  /\ Len(bulk.newNumbers) >= 2
  /\ Len(bulk.uniqueNewNumbers) = 1

\* the entries of a log that fall in the window of length w ending at time e
InTrailingWindow(log, e, w) == {x \in log : x.at > e - w /\ x.at <= e}

\* C2: in one sequential dispatch, for each gate the number of transport sends
\* issued in any trailing window of windowMs never exceeds maxRequests.
C2_SendsWithinLimit ==
  \A l \in Limiters : \A s \in sendLog :
    Cardinality(InTrailingWindow(sendLog, s.at, windowMs(l))) <= maxRequests(l)

\* C3: the returned results hold exactly one outcome per submitted number and
\* the i-th outcome is for the i-th number, whatever the gates delayed and
\* whichever sends failed.
C3_OutcomeOrder ==
  \A t \in Tasks : pc[t] = "done" =>
    /\ Len(summary[t].results) = Len(batch[t])
    /\ \A i \in 1..Len(batch[t]) : summary[t].results[i].phoneNumber = batch[t][i]

\* a returned dispatch of three numbers, two of them distinct and sent, during
\* which a gate made the task sleep and one send failed
C3_Witness ==
  /\ pc["t1"] = "done"
  /\ Len(batch["t1"]) = 3
  /\ batch["t1"][1] # batch["t1"][3]
  /\ wakeAt["t1"] > 0
  /\ summary["t1"].results[1].success
  /\ ~summary["t1"].results[2].success
  /\ summary["t1"].results[3].success

Sent(t, i) == \E s \in sendLog : s.task = t /\ s.index = i

\* C4: a per-item failure (invalid format or a transport failure) is recorded
\* as a failed outcome and does not stop the batch: every later number is
\* still attempted, and the counters count the failures.
C4_FailureIsolated ==
  \A t \in Tasks : pc[t] = "done" =>
    /\ Len(results[t]) = Len(batch[t])
    /\ \A i \in 1..Len(batch[t]) :
         /\ thrown[t][i] # NoError => ~results[t][i].success
         /\ ~isValidTwilioNumber(cleanPhoneNumber(batch[t][i]))
              => ~results[t][i].success
         /\ (isValidTwilioNumber(cleanPhoneNumber(batch[t][i])) /\ options[t] # "none")
              => Sent(t, i)
    /\ summary[t].totalFailed =
         Cardinality({i \in 1..Len(batch[t]) : ~results[t][i].success})
    /\ summary[t].totalSent + summary[t].totalFailed = Len(batch[t])

\* three numbers, the second transport call failing: 2 sent, 1 failed
C4_Witness ==
  /\ pc["t1"] = "done"
  /\ Len(batch["t1"]) = 3
  /\ thrown["t1"][1] = NoError
  /\ thrown["t1"][2] # NoError
  /\ Sent("t1", 3)
  /\ summary["t1"].totalSent = 2
  /\ summary["t1"].totalFailed = 1

\* C7: under any interleaving of concurrent batches, the number of checkLimit
\* calls answered allowed in any trailing windowMs never exceeds maxRequests.
C7_AllowedWithinLimit ==
  \A l \in Limiters : \A a \in allowedLog[l] :
    Cardinality(InTrailingWindow(allowedLog[l], a.at, windowMs(l))) <= maxRequests(l)

\* both batches are at their first number: one was admitted by the per-second
\* gate, the other was denied by it and sleeps
C7_Witness ==
  /\ idx["t1"] = 1 /\ idx["t2"] = 1
  /\ pc["t1"] = "sleep_perSecond"
  /\ pc["t2"] \in {"perMinute", "build", "create"}
  /\ Cardinality(allowedLog["perSecond"]) = 1

\* C8: a transport failure carrying the provider code 63016 is recorded as
\* the outside-window outcome, whatever the failure's message text is.
C8_WindowCodeRemapped ==
  \A t \in Tasks : \A i \in 1..Len(results[t]) :
    thrown[t][i].code = CodeOutsideWindow
      => results[t][i].error = OutsideWindowText

\* C9: a transport failure that does not carry the outside-window code is
\* recorded with its raw message unchanged, never as the outside-window outcome.
C9_OtherFailuresRaw ==
  \A t \in Tasks : \A i \in 1..Len(results[t]) :
    (thrown[t][i] # NoError /\ thrown[t][i].code # CodeOutsideWindow)
      => /\ results[t][i].error = thrown[t][i].message
         /\ results[t][i].error # OutsideWindowText

\* C10: the bookkeeping is fire-and-forget: the response is produced while
\* no updateLastSent / recordTemplateSend promise has settled, a failing
\* promise is only logged, no settled promise is started again, and a
\* response once produced is never changed.
C10_FireAndForget ==
  [][ /\ (response # NoResult => response' = response)
      /\ ((response = NoResult /\ response' # NoResult) => settled' = {})
      /\ \A s \in settled : s.task \notin pending'
      /\ \A s \in settled' \ settled :
           ~s.ok => (s.task \in errorLog' /\ response' = response /\ rpc' = rpc)
    ]_vars

\* the 200 response is out, one bookkeeping promise has failed and was logged,
\* another is still running
C10_Witness ==
  /\ response # NoResult
  /\ response.status = 200
  /\ pending # {}
  /\ \E s \in settled : ~s.ok /\ s.task \in errorLog


\* the bookkeeping promises started so far
Started == pending \cup {x.task : x \in settled}

\* C11: once the dispatch result has been handled, a recordTemplateSend is
\* started for exactly the successful outcomes of a send that used a template,
\* given as templateName or as a template object, and for no failed outcome
\* and no freeform send.
C11_TemplateSendRecorded ==
  (rpc = "responded" /\ response.status = 200) =>
    \A i \in 1..Len(summary["t1"].results) :
      [kind |-> "recordTemplateSend", index |-> i] \in Started
        <=> (summary["t1"].results[i].success /\ IsTemplatePayload(req.payload))

Vals(xs) == {xs[i] : i \in 1..Len(xs)}

\* C12: two raw values of one batch with the same normalized form are the
\* same identifier, so both are reported in intraInputDuplicates.
C12_CanonicalRepeat ==
  cpc = "returned" =>
    \A i, j \in 1..Len(phoneNumbers) :
      (i # j /\ normalizePhoneNumber(phoneNumbers[i])
                  = normalizePhoneNumber(phoneNumbers[j]))
        => phoneNumbers[i] \in Vals(bulk.intraInputDuplicates)

\* no two positions of xs hold values with the same normalized form
CanonicallyDistinct(xs) ==
  \A i, j \in 1..Len(xs) :
    normalizePhoneNumber(xs[i]) = normalizePhoneNumber(xs[j]) => i = j

\* C13: databaseDuplicates and uniqueNewNumbers each hold no two entries with
\* the same normalized form, and no normalized form is in both.
C13_SummarySetsCanonical ==
  cpc = "returned" =>
    /\ CanonicallyDistinct(bulk.databaseDuplicates)
    /\ CanonicallyDistinct(bulk.uniqueNewNumbers)
    /\ \A a \in Vals(bulk.databaseDuplicates) : \A b \in Vals(bulk.uniqueNewNumbers) :
         normalizePhoneNumber(a) # normalizePhoneNumber(b)


\* C14: after any interleaving of concurrent storePhoneNumbers calls, the
\* table holds at most one row for a normalized number.
C14_OneRowPerCanonical ==
  (\A s \in StoreTasks : stx[s].state \in {"done", "failed"}) =>
    \A r1, r2 \in Committed(table) :
      r1.normalized_number = r2.normalized_number => r1.id = r2.id

\* the phone_number column is unique among the rows a transaction can see
OneRowPerPhoneNumber ==
  \A r1, r2 \in table : r1.phone_number = r2.phone_number => r1.id = r2.id


\* C15: in every summary returned by sendBulkWhatsApp, totalSent + totalFailed
\* is the number of results, totalSent counts the results with success = true
\* and totalFailed those with success = false.
C15_CountersMatch ==
  \A t \in Tasks : summary[t] # NoResult =>
    LET out == summary[t].results IN
    /\ summary[t].totalSent + summary[t].totalFailed = Len(out)
    /\ summary[t].totalSent = Cardinality({i \in 1..Len(out) : out[i].success})
    /\ summary[t].totalFailed = Cardinality({i \in 1..Len(out) : ~out[i].success})

\* a summary of three results: an invalid format, a transport failure, a success
C15_Witness ==
  /\ summary["t1"] # NoResult
  /\ Len(summary["t1"].results) = 3
  /\ summary["t1"].totalSent = 1
  /\ summary["t1"].totalFailed = 2
  /\ \E i \in 1..3 : summary["t1"].results[i].error = InvalidFormatText
  /\ \E i \in 1..3 : thrown["t1"][i] # NoError

\* p is format-valid, its lookup succeeded and no stored row has its number
NoHistory(p) ==
  /\ isValidPhoneNumber(p)
  /\ p \notin lookupFailed
  /\ ~checkNumberExists(p, db)

\* C16: a value repeated in the batch that has no stored row is a new number
\* at every one of its occurrences (isDuplicate only tells whether a row is
\* stored), and it is also listed in intraInputDuplicates.
C16_RepeatedNewValue ==
  cpc = "returned" =>
    \A p \in Vals(phoneNumbers) :
      (Count(phoneNumbers, p) > 1 /\ NoHistory(p)) =>
        /\ Count(bulk.newNumbers, p) = Count(phoneNumbers, p)
        /\ Count(bulk.duplicateNumbers, p) = 0
        /\ \A i \in 1..Len(phoneNumbers) :
             phoneNumbers[i] = p =>
               (bulk.results[i].isValid /\ ~bulk.results[i].isDuplicate)
        /\ p \in Vals(bulk.intraInputDuplicates)

\* a new value occurs three times next to a value that is stored
C16_Witness ==
  /\ cpc = "returned"
  /\ \E p \in Vals(phoneNumbers) :
       Count(phoneNumbers, p) = 3 /\ NoHistory(p) /\ Count(bulk.newNumbers, p) = 3
  /\ Len(bulk.duplicateNumbers) = 1

\* C17: intraInputDuplicates holds every raw value that occurs more than once
\* as many times as it occurs, and no raw value that occurs once.
C17_RepeatsFullMultiplicity ==
  cpc = "returned" =>
    \A p \in RawIds :
      Count(bulk.intraInputDuplicates, p) =
        IF Count(phoneNumbers, p) > 1 THEN Count(phoneNumbers, p) ELSE 0

\* one value occurs three times and another once: three entries
C17_Witness ==
  /\ cpc = "returned"
  /\ Len(phoneNumbers) = 4
  /\ Cardinality(Vals(phoneNumbers)) = 2
  /\ Len(bulk.intraInputDuplicates) = 3

HasDigit(s) == \E i \in 1..Len(s) : s[i] \in Digits

DigitCount(s) == Cardinality({i \in 1..Len(s) : s[i] \in Digits})

\* C18: normalizePhoneNumber adds the missing '+': the result for an input
\* with a digit starts with '+', and 7 to 15 digits written without '+' are
\* format-valid after normalization.
C18_PlusAdded ==
  (npc \in {"once", "twice"} /\ HasDigit(raw)) =>
    /\ StartsWith(normalized, <<"+">>)
    /\ (~Includes(raw, <<"+">>) /\ DigitCount(raw) >= 7 /\ DigitCount(raw) <= 15)
         => MatchesPhoneRegex(normalized)


\* a task sleeping at gate l wakes within that gate's windowMs
SleepIsBounded ==
  \A t \in Tasks : \A l \in Limiters :
    pc[t] = "sleep_" \o l => (wakeAt[t] > now /\ wakeAt[t] - now <= windowMs(l))

\* C19: sendBulkWhatsApp eventually returns when every transport call
\* resolves or rejects: a waitForLimit sleep lasts at most the gate's
\* windowMs, and a gate is passed at most once for a number.
C19_DispatchReturns ==
  /\ <>(pc["t1"] = "done")
  /\ [](pc["t1"] = "done" => Len(summary["t1"].results) = Len(batch["t1"]))
  /\ []SleepIsBounded
  /\ [](\A t \in Tasks : \A l \in Limiters : checks[t][l] <= 1)

\* the dispatch of three numbers returned, all sent, after a sleep at a gate
C19_Witness ==
  /\ pc["t1"] = "done"
  /\ summary["t1"].totalSent = 3
  /\ wakeAt["t1"] > TickMs

\* C20: waitForLimit calls checkLimit exactly once; a denied caller sleeps
\* until resetTime and then returns, without a second checkLimit and without
\* a sample being appended to the history.
C20_SingleShot ==
  [][ \A t \in Tasks : \A l \in Limiters :
        /\ checks'[t][l] <= 1
        /\ (pc[t] = l /\ pc'[t] # l) =>
             LET result == checkLimit(l, Scope, now) IN
             /\ checks'[t][l] = checks[t][l] + 1
             /\ requests'[l] = result.stored
             /\ pc'[t] = IF ~result.allowed /\ result.resetTime > now
                         THEN "sleep_" \o l ELSE AfterGate(l)
             /\ pc'[t] = "sleep_" \o l => wakeAt'[t] = result.resetTime
        /\ (pc[t] = "sleep_" \o l /\ pc'[t] # pc[t]) =>
             /\ pc'[t] = AfterGate(l)
             /\ requests' = requests
             /\ checks' = checks
             /\ now' >= wakeAt[t]
    ]_vars

\* the second number was denied by the per-second gate, slept, and is now past
\* that gate: one checkLimit was made and the history holds no sample for it
C20_Witness ==
  /\ pc["t1"] = "perMinute"
  /\ idx["t1"] = 2
  /\ checks["t1"]["perSecond"] = 1
  /\ wakeAt["t1"] > 0
  /\ now >= wakeAt["t1"]
  /\ \A i \in 1..Len(HistoryOf("perSecond", Scope)) :
       HistoryOf("perSecond", Scope)[i].timestamp < wakeAt["t1"]


\* the positions of the stored samples of the scope that are newer than t - windowMs
SamplesInWindow(l, t) ==
  {i \in 1..Len(HistoryOf(l, Scope)) :
     HistoryOf(l, Scope)[i].timestamp > t - windowMs(l)}

RECURSIVE SumOfCounts(_, _)
SumOfCounts(history, I) ==
  IF I = {} THEN 0
  ELSE LET i == CHOOSE x \in I : TRUE
       IN history[i].count + SumOfCounts(history, I \ {i})

\* C21: a checkLimit call at time now is allowed exactly when the counts of the
\* samples newer than now - windowMs add up to less than maxRequests; an
\* allowed call leaves those samples followed by one new sample (now, 1), a
\* denied call leaves the stored history as it was.
C21_AllowedIffUnderLimit ==
  [][ \A t \in Tasks : \A l \in Limiters :
        (pc[t] = l /\ pc'[t] # l) =>
          LET before  == HistoryOf(l, Scope)
              inside  == SamplesInWindow(l, now)
              after   == (HistoryOf(l, Scope))'
              allowed == pc'[t] # "sleep_" \o l
          IN /\ allowed <=> SumOfCounts(before, inside) < maxRequests(l)
             /\ allowed <=> [task |-> t, index |-> idx[t], at |-> now] \in allowedLog'[l]
             /\ allowed =>
                  /\ Len(after) = Cardinality(inside) + 1
                  /\ after[Len(after)] = [timestamp |-> now, count |-> 1]
                  /\ \A k \in 1..(Len(after) - 1) :
                       \E i \in inside : after[k] = before[i]
             /\ ~allowed => requests'[l] = requests[l]
    ]_vars

\* a call exactly one window after the first sample was allowed: the old sample
\* was dropped and one appended
C21_Witness ==
  /\ \E a \in allowedLog["perSecond"] : a.at = 0
  /\ \E a \in allowedLog["perSecond"] : a.at = PerSecondWindowMs
  /\ HistoryOf("perSecond", Scope) = <<[timestamp |-> PerSecondWindowMs, count |-> 1]>>

\* the smallest timestamp among the samples at the positions I
OldestIn(history, I) ==
  CHOOSE ts \in {history[i].timestamp : i \in I} :
    \A i \in I : ts <= history[i].timestamp

\* C22: a denied checkLimit answers resetTime = the timestamp of the oldest
\* sample still inside the window + windowMs (now + windowMs when no sample is
\* left); with maxRequests = 1 and windowMs = 1000 a second call within
\* 1000 ms of the first is denied until firstCallTime + 1000.
C22_ResetTime ==
  [][ \A t \in Tasks : \A l \in Limiters :
        (pc[t] = l /\ pc'[t] = "sleep_" \o l) =>
          LET inside == SamplesInWindow(l, now) IN
          wakeAt'[t] = IF inside # {}
                       THEN OldestIn(HistoryOf(l, Scope), inside) + windowMs(l)
                       ELSE now + windowMs(l)
    ]_vars

\* the first call was at 0; the call at 500 ms was denied until 1000 ms
C22_Witness ==
  /\ pc["t1"] = "sleep_perSecond"
  /\ idx["t1"] = 2
  /\ now = TickMs
  /\ HistoryOf("perSecond", Scope) = <<[timestamp |-> 0, count |-> 1]>>
  /\ wakeAt["t1"] = PerSecondWindowMs


\* the distinct raw values of the batch whose format is valid
ValidValues == {p \in Vals(phoneNumbers) : isValidPhoneNumber(p)}

\* C23: validatePhoneNumbers resolves one result per unique raw value and
\* queries the store once per distinct format-valid raw value, never for an
\* invalid one, however often a value occurs in the batch.
C23_OneLookupPerValidValue ==
  /\ Len(lookups) <= Cardinality(ValidValues)
  /\ \A i \in 1..Len(lookups) :
       \E p \in ValidValues : lookups[i] = normalizePhoneNumber(p)
  /\ cpc = "returned" =>
       /\ Len(lookups) = Cardinality(ValidValues)
       /\ DOMAIN uniqueResults = Vals(phoneNumbers)

\* four numbers, three distinct, one of them invalid: two lookups
C23_Witness ==
  /\ cpc = "returned"
  /\ Len(phoneNumbers) = 4
  /\ Cardinality(Vals(phoneNumbers)) = 3
  /\ bulk.invalidNumbers # <<>>
  /\ Len(lookups) = 2

\* C24: a number that fails the format check of sendWhatsApp gets the
\* invalid-format result; no rate limiter is called and nothing is sent for
\* it, and the loop goes on to the next number.
C24_InvalidFormatSkipsGates ==
  \A t \in Tasks :
    /\ \A i \in 1..Len(results[t]) :
         ~isValidTwilioNumber(cleanPhoneNumber(batch[t][i])) =>
           /\ results[t][i] = Failure(batch[t][i], InvalidFormatText)
           /\ ~Sent(t, i)
           /\ \A l \in Limiters : \A a \in allowedLog[l] : ~(a.task = t /\ a.index = i)
    /\ pc[t] \in {"perSecond", "perMinute", "sleep_perSecond", "sleep_perMinute",
                  "build", "create"}
         => isValidTwilioNumber(cleanPhoneNumber(batch[t][idx[t]]))
    /\ pc[t] = "done" => Len(results[t]) = Len(batch[t])

\* an invalid number before and after a valid one: one gate sample, one send
C24_Witness ==
  /\ pc["t1"] = "done"
  /\ Len(batch["t1"]) = 3
  /\ results["t1"][1].error = InvalidFormatText
  /\ results["t1"][2].success
  /\ results["t1"][3].error = InvalidFormatText
  /\ Cardinality(sendLog) = 1
  /\ Len(HistoryOf("perSecond", Scope)) = 1
  /\ Len(HistoryOf("perMinute", Scope)) = 1

\* C26: a raw value that validatePhoneNumbers accepts is accepted by the
\* format check of sendWhatsApp, and the number sendWhatsApp sends to is the
\* normalized number used for the lookup and for updateLastSent.
C26_CleanEqualsNormalized ==
  (npc \in {"once", "twice"} /\ MatchesPhoneRegex(normalized)) =>
    /\ isValidTwilioNumber(cleanPhoneNumber(raw))
    /\ cleanPhoneNumber(raw) = normalized

\* C27: a request answered with an error before the dispatch has stored no
\* phone number and sent nothing.
C27_RejectedNoSideEffects ==
  (rpc = "responded" /\ response.status # 200) =>
    /\ db \subseteq StoredBefore
    /\ sendLog = {}

LaterCalls == {0, TickMs, PerSecondWindowMs, PerMinuteWindowMs}

\* C25: cleanup() discards only samples older than twice the window (and
\* deletes a scope left empty), so a checkLimit made at any time after the
\* cleanup gives the same allowed and resetTime as it would without it.
C25_CleanupKeepsAnswers ==
  [][(lastCall' = "cleanup" /\ calls' = calls + 1) =>
       \A l \in Limiters :
         LET Recent(record) == record.timestamp > now - 2 * windowMs(l)
         IN /\ HistoryOf(l, Scope)' = SelectSeq(HistoryOf(l, Scope), Recent)
            /\ (Scope \in DOMAIN requests'[l]) <=> (HistoryOf(l, Scope)' # <<>>)
            /\ \A d \in LaterCalls :
                 /\ checkLimit(l, Scope, now + d).allowed
                      = (checkLimit(l, Scope, now + d))'.allowed
                 /\ checkLimit(l, Scope, now + d).resetTime
                      = (checkLimit(l, Scope, now + d))'.resetTime]_vars

C25_Witness ==
  /\ lastCall = "cleanup"
  /\ discarded >= 1
  /\ Scope \notin DOMAIN requests["perSecond"]
  /\ HistoryOf("perMinute", Scope) # <<>>

\* C29: after any sequence of checkLimit, waitForLimit and cleanup calls the
\* stored history of every scope holds at most maxRequests samples, in
\* non-decreasing order of timestamp.
C29_HistoryBoundedSorted ==
  \A l \in Limiters :
    LET history == HistoryOf(l, Scope)
    IN /\ Len(history) <= maxRequests(l)
       /\ \A i \in 1..Len(history) : \A j \in i..Len(history) :
            history[i].timestamp <= history[j].timestamp

C29_Witness ==
  LET history == HistoryOf("perMinute", Scope)
  IN /\ calls > 0
     /\ discarded >= 1
     /\ Len(history) = PerMinuteLimit
     /\ history[1].timestamp < history[Len(history)].timestamp

\* C28: after 'Remove duplicates' the list posted to /api/sms/send holds each
\* number at most once, only numbers without a stored row, and as many numbers
\* as the modal announced ('Send only to N new numbers').
C28_RemoveDuplicatesSubmission ==
  dpc = "sentNew" =>
    /\ \A i \in DOMAIN submitted : \A j \in DOMAIN submitted :
         submitted[i] = submitted[j] => i = j
    /\ \A i \in DOMAIN submitted : ~checkNumberExists(submitted[i], db)
    /\ Len(submitted) = modal.newNumbers

Ended(s) == stx[s].state \in {"done", "failed"}

Issued(s, statement) == \E i \in DOMAIN stx[s].issued : stx[s].issued[i] = statement

\* the client is released once when the call ends, and never before or twice
ReleasedOnce ==
  \A s \in StoreTasks :
    /\ stx[s].released <= 1
    /\ (Ended(s) /\ stx[s].issued # <<>>) => stx[s].released = 1
    /\ stx[s].issued = <<>> => stx[s].released = 0

\* COMMIT is issued only after BEGIN and every INSERT went through
CommitOnlyAfterSuccess ==
  \A s \in StoreTasks :
    Issued(s, "COMMIT") =>
      /\ stx[s].issued[1] = "BEGIN"
      /\ stx[s].pos > Len(stx[s].numbers)
      /\ stx[s].error \in {"", "COMMIT"}

\* a call that ended left every number of its batch stored, or none of the
\* rows it inserted
AllOrNone ==
  \A s \in StoreTasks :
    Ended(s) =>
      LET mine == {r \in table : r.id \in stx[s].inserted}
      IN \/ mine = {}
         \/ /\ mine \subseteq Committed(table)
            /\ \A i \in DOMAIN stx[s].numbers :
                 \E r \in Committed(table) : r.phone_number = stx[s].numbers[i]

\* a failure inside the try block is answered with ROLLBACK and the caller
\* gets the error that was caught
RollbackAndRethrow ==
  \A s \in StoreTasks :
    (Ended(s) /\ stx[s].error # "") =>
      /\ stx[s].thrown = stx[s].error
      /\ stx[s].issued # <<>> => Issued(s, "ROLLBACK")

\* C30: transaction(callback) releases its client exactly once on every path,
\* issues COMMIT only when BEGIN and the callback succeeded, otherwise issues
\* ROLLBACK and rethrows the original error, and storePhoneNumbers stores
\* every number of its batch or none.
C30_TransactionProtocol ==
  /\ ReleasedOnce
  /\ CommitOnlyAfterSuccess
  /\ RollbackAndRethrow
  /\ AllOrNone

=============================================================================
